---- MODULE Spec2Model ----
(***************************************************************************)
(* Model of simple_url_parser: URL::parse (a pipeline of six nom-based     *)
(* stage parsers followed by construction of the URL record) and           *)
(* URL::stringify.  Text is a sequence of one-character strings.           *)
(***************************************************************************)
EXTENDS Integers, Sequences, FiniteSets, TLC

(* ---------------------------------------------------------------------- *)
(* Inputs                                                                 *)
(* ---------------------------------------------------------------------- *)

\* Longest enumerated input.
MaxLen == 5

\* One character of every class the scans distinguish: a letter, a digit,
\* the dot, the five delimiters and the space that ends the hash scan.
Alphabet == {"a", "1", ".", ":", "/", "@", "?", "#", " "}

\* Inputs of the repository's tests and of the documented examples.
FullFieldUrl ==
    <<"h", "t", "t", "p", "s", ":", "/", "/", "l", "b", ":", "1", "2", "3",
    "4", "5", "6", "@", "w", "w", "w", ".", "g", "o", "o", "g", "l", "e",
    ".", "c", "o", "m", ":", "1", "2", "3", "/", "b", "l", "o", "g", "/",
    "0", "1", "?", "a", "=", "1", "&", "b", "=", "2", "#", "1", "3", "2",
    "4", "5", "6">>

Issue3Url ==
    <<"h", "t", "t", "p", ":", "/", "/", "e", "x", "a", "m", "p", "l", "e",
    ".", "o", "r", "g">>

AnonFtpUrl ==
    <<"f", "t", "p", ":", "/", "/", "a", "n", "o", "n", "@", "h", "o", "s",
    "t", "/", "x">>

NotAUrl ==
    <<"n", "o", "t", "-", "a", "-", "u", "r", "l">>

ExampleInputs == {FullFieldUrl, Issue3Url, AnonFtpUrl, NotAUrl}

BoundedInputs == UNION {[1..n -> Alphabet] : n \in 0..MaxLen}

Inputs == BoundedInputs \cup ExampleInputs

(* ---------------------------------------------------------------------- *)
(* Character classes                                                      *)
(* ---------------------------------------------------------------------- *)

Letters == {"a", "b", "c", "d", "e", "f", "g", "h", "i", "j", "k", "l", "m",
            "n", "o", "p", "q", "r", "s", "t", "u", "v", "w", "x", "y", "z"}

Digits == {"0", "1", "2", "3", "4", "5", "6", "7", "8", "9"}

\* char::is_alphabetic
is_alphabetic(c) == c \in Letters

\* nom's is_alphanum: ASCII letter or ASCII digit
is_alphanum(c) == c \in Letters \cup Digits

(* ---------------------------------------------------------------------- *)
(* nom combinators (complete versions), as used by the crate              *)
(* ---------------------------------------------------------------------- *)

\* IResult: Ok((rest, out)) or Err(Error(input, kind))
Ok(rest, out) == [ok |-> TRUE, rest |-> rest, out |-> out, kind |-> "None"]

Error(i, kind) == [ok |-> FALSE, rest |-> i, out |-> <<>>, kind |-> kind]

Some(v) == [some |-> TRUE, val |-> v]

None == [some |-> FALSE, val |-> <<>>]

Take(i, n) == SubSeq(i, 1, n)

Drop(i, n) == SubSeq(i, n + 1, Len(i))

\* take_while(cond): the longest prefix whose characters satisfy cond;
\* succeeds on zero characters.
take_while(cond(_), i) ==
    LET n == CHOOSE n \in 0..Len(i) :
                 /\ \A k \in 1..n : cond(i[k])
                 /\ (n = Len(i) \/ ~cond(i[n + 1]))
    IN  Ok(Drop(i, n), Take(i, n))

\* take_until(t): the text before the first occurrence of t, which is not
\* consumed; an error when t does not occur.
take_until(t, i) ==
    LET hits == {p \in 0..(Len(i) - Len(t)) : SubSeq(i, p + 1, p + Len(t)) = t}
    IN  IF hits = {}
        THEN Error(i, "TakeUntil")
        ELSE LET p == CHOOSE p \in hits : \A q \in hits : p <= q
             IN  Ok(Drop(i, p), Take(i, p))

tag(t, i) ==
    IF Len(i) >= Len(t) /\ Take(i, Len(t)) = t
    THEN Ok(Drop(i, Len(t)), t)
    ELSE Error(i, "Tag")

char(c, i) ==
    IF Len(i) > 0 /\ i[1] = c
    THEN Ok(Tail(i), c)
    ELSE Error(i, "Char")

alphanumeric0(i) == take_while(is_alphanum, i)

opt(f(_), i) ==
    LET r == f(i)
    IN  IF r.ok THEN Ok(r.rest, Some(r.out)) ELSE Ok(i, None)

peek(f(_), i) ==
    LET r == f(i)
    IN  IF r.ok THEN Ok(i, r.out) ELSE r

preceded(first(_), second(_), i) ==
    LET a == first(i)
    IN  IF ~a.ok THEN a ELSE second(a.rest)

terminated(first(_), second(_), i) ==
    LET a == first(i)
    IN  IF ~a.ok
        THEN a
        ELSE LET b == second(a.rest)
             IN  IF ~b.ok THEN b ELSE Ok(b.rest, a.out)

separated_pair(first(_), sep(_), second(_), i) ==
    LET a == first(i)
    IN  IF ~a.ok
        THEN a
        ELSE LET s == sep(a.rest)
             IN  IF ~s.ok
                 THEN s
                 ELSE LET b == second(s.rest)
                      IN  IF ~b.ok THEN b ELSE Ok(b.rest, <<a.out, b.out>>)

(* ---------------------------------------------------------------------- *)
(* Helpers and stage parsers of the crate                                 *)
(* ---------------------------------------------------------------------- *)

key_value(i) ==
    separated_pair(LAMBDA x : take_while(LAMBDA c : is_alphabetic(c) \/ c = ".", x),
                   LAMBDA x : opt(LAMBDA y : char(":", y), x),
                   alphanumeric0,
                   i)

end_with(split, i) ==
    terminated(LAMBDA x : take_until(split, x), LAMBDA x : tag(split, x), i)

parse_scheme_single_slash(i) == end_with(<<"/">>, i)

parse_scheme(i) == end_with(<<"/", "/">>, i)

parse_username_password(i) ==
    LET r == opt(LAMBDA x : end_with(<<"@">>, x), i)
    IN  IF ~r.ok
        THEN r
        ELSE IF r.out.some
             THEN LET kv == key_value(r.out.val)
                  IN  IF ~kv.ok THEN kv ELSE Ok(r.rest, kv.out)
             ELSE Ok(r.rest, <<<<>>, <<>>>>)

parse_host_port_strict(i) ==
    terminated(key_value, LAMBDA x : peek(LAMBDA y : tag(<<"/">>, y), x), i)

parse_host_port(i) ==
    terminated(key_value,
               LAMBDA x : peek(LAMBDA y : opt(LAMBDA z : tag(<<"/">>, z), y), x),
               i)

parse_path(i) == take_while(LAMBDA c : c \notin {"#", "?"}, i)

parse_query_consuming(i) ==
    preceded(LAMBDA x : opt(LAMBDA y : tag(<<"?">>, y), x),
             LAMBDA x : take_while(LAMBDA c : c # "#", x),
             i)

parse_query(i) ==
    preceded(LAMBDA x : peek(LAMBDA y : opt(LAMBDA z : tag(<<"?">>, z), y), x),
             LAMBDA x : take_while(LAMBDA c : c # "#", x),
             i)

parse_hash(i) ==
    preceded(LAMBDA x : peek(LAMBDA y : opt(LAMBDA z : tag(<<"#">>, z), y), x),
             LAMBDA x : take_while(LAMBDA c : c # " ", x),
             i)

\* str::strip_suffix(':')
strip_suffix(s) ==
    IF Len(s) > 0 /\ s[Len(s)] = ":" THEN Some(Take(s, Len(s) - 1)) ELSE None

\* Option::unwrap_or_default
unwrap_or_default(o) == IF o.some THEN o.val ELSE <<>>

\* the scheme field of the record: scheme.strip_suffix(':').unwrap_or_default()
url_scheme_keep(s) == s

url_scheme(s) == unwrap_or_default(strip_suffix(s))

\* origin, as computed in URL::parse
make_origin(h, p) == IF p = <<>> THEN h ELSE h \o <<":">> \o p

\* URL::stringify
stringify(obj) ==
    LET link0 == obj.scheme \o <<":", "/", "/">>
        link  == IF obj.username # <<>>
                 THEN IF obj.password # <<>>
                      THEN link0 \o obj.username \o <<":">> \o obj.password \o <<"@">>
                      ELSE link0 \o obj.username
                 ELSE link0
    IN  link \o obj.origin \o obj.path \o obj.query \o obj.hash

(* ---------------------------------------------------------------------- *)
(* State machine: one call of URL::parse followed by URL::stringify       *)
(* ---------------------------------------------------------------------- *)

VARIABLES input, pc, i, err, scheme, username, password, host, port, path,
          query, hash, url, str

vars == <<input, pc, i, err, scheme, username, password, host, port, path,
          query, hash, url, str>>

locals == <<scheme, username, password, host, port, path, query, hash>>

Init ==
    /\ input \in Inputs
    /\ pc = "parse_scheme"
    /\ i = input
    /\ err = "None"
    /\ scheme = <<>>
    /\ username = <<>>
    /\ password = <<>>
    /\ host = <<>>
    /\ port = <<>>
    /\ path = <<>>
    /\ query = <<>>
    /\ hash = <<>>
    /\ url = <<>>
    /\ str = <<>>

\* the `?` operator: an Err aborts the parse
Fail(r) ==
    /\ pc' = "error"
    /\ err' = r.kind
    /\ UNCHANGED <<input, i, locals, url, str>>

ParseScheme ==
    /\ pc = "parse_scheme"
    /\ LET r == parse_scheme(i)
       IN  IF r.ok
           THEN /\ i' = r.rest
                /\ scheme' = r.out
                /\ pc' = "parse_username_password"
                /\ UNCHANGED <<input, err, username, password, host, port,
                               path, query, hash, url, str>>
           ELSE Fail(r)

ParseUsernamePassword ==
    /\ pc = "parse_username_password"
    /\ LET r == parse_username_password(i)
       IN  IF r.ok
           THEN /\ i' = r.rest
                /\ username' = r.out[1]
                /\ password' = r.out[2]
                /\ pc' = "parse_host_port"
                /\ UNCHANGED <<input, err, scheme, host, port, path, query,
                               hash, url, str>>
           ELSE Fail(r)

ParseHostPort ==
    /\ pc = "parse_host_port"
    /\ LET r == parse_host_port(i)
       IN  IF r.ok
           THEN /\ i' = r.rest
                /\ host' = r.out[1]
                /\ port' = r.out[2]
                /\ pc' = "parse_path"
                /\ UNCHANGED <<input, err, scheme, username, password, path,
                               query, hash, url, str>>
           ELSE Fail(r)

ParsePath ==
    /\ pc = "parse_path"
    /\ LET r == parse_path(i)
       IN  IF r.ok
           THEN /\ i' = r.rest
                /\ path' = r.out
                /\ pc' = "parse_query"
                /\ UNCHANGED <<input, err, scheme, username, password, host,
                               port, query, hash, url, str>>
           ELSE Fail(r)

ParseQuery ==
    /\ pc = "parse_query"
    /\ LET r == parse_query(i)
       IN  IF r.ok
           THEN /\ i' = r.rest
                /\ query' = r.out
                /\ pc' = "parse_hash"
                /\ UNCHANGED <<input, err, scheme, username, password, host,
                               port, path, hash, url, str>>
           ELSE Fail(r)

ParseHash ==
    /\ pc = "parse_hash"
    /\ LET r == parse_hash(i)
       IN  IF r.ok
           THEN /\ i' = r.rest
                /\ hash' = r.out
                /\ pc' = "build"
                /\ UNCHANGED <<input, err, scheme, username, password, host,
                               port, path, query, url, str>>
           ELSE Fail(r)

\* Ok(URL { ... })
BuildURL ==
    /\ pc = "build"
    /\ url' = << [scheme   |-> url_scheme(scheme),
                  username |-> username,
                  password |-> password,
                  origin   |-> make_origin(host, port),
                  host     |-> host,
                  port     |-> port,
                  path     |-> path,
                  query    |-> query,
                  hash     |-> hash] >>
    /\ pc' = "parsed"
    /\ UNCHANGED <<input, i, err, locals, str>>

Stringify ==
    /\ pc = "parsed"
    /\ str' = stringify(url[1])
    /\ pc' = "stringified"
    /\ UNCHANGED <<input, i, err, locals, url>>

Next ==
    \/ ParseScheme
    \/ ParseUsernamePassword
    \/ ParseHostPort
    \/ ParsePath
    \/ ParseQuery
    \/ ParseHash
    \/ BuildURL
    \/ Stringify

Spec == Init /\ [][Next]_vars

TypeOK ==
    /\ pc \in {"parse_scheme", "parse_username_password", "parse_host_port",
               "parse_path", "parse_query", "parse_hash", "build", "parsed",
               "stringified", "error"}
    /\ Len(url) <= 1
(* ---------------------------------------------------------------------- *)
(* Text vocabulary of the claims, defined on the input text alone         *)
(* ---------------------------------------------------------------------- *)

ContainsDelim(s) == \E k \in 1..(Len(s) - 1) : s[k] = "/" /\ s[k + 1] = "/"

\* position of the first `//`
DelimPos(s) ==
    CHOOSE k \in 1..(Len(s) - 1) :
        /\ s[k] = "/" /\ s[k + 1] = "/"
        /\ \A j \in 1..(k - 1) : ~(s[j] = "/" /\ s[j + 1] = "/")

BeforeDelim(s) == Take(s, DelimPos(s) - 1)

AfterDelim(s) == Drop(s, DelimPos(s) + 1)

EndsWithColon(s) == Len(s) > 0 /\ s[Len(s)] = ":"

\* position of the first character of s that is in cs, Len(s) + 1 if none
FirstOf(cs, s) ==
    CHOOSE k \in 1..(Len(s) + 1) :
        /\ (k = Len(s) + 1 \/ s[k] \in cs)
        /\ \A j \in 1..(k - 1) : s[j] \notin cs

Count(c, s) == Cardinality({k \in 1..Len(s) : s[k] = c})

AllIn(cs, s) == \A k \in 1..Len(s) : s[k] \in cs

\* the text after `//` up to the first `/`, `?`, `#` or the end
Authority(s) ==
    LET rem == AfterDelim(s) IN Take(rem, FirstOf({"/", "?", "#"}, rem) - 1)

HasCredentials(s) == "@" \in {Authority(s)[k] : k \in 1..Len(Authority(s))}

\* the credentials block, without its `@`
Credentials(s) == Take(Authority(s), FirstOf({"@"}, Authority(s)) - 1)

\* the authority segment: the authority after the optional `credentials@`
Segment(s) ==
    IF HasCredentials(s)
    THEN Drop(Authority(s), FirstOf({"@"}, Authority(s)))
    ELSE Authority(s)

BeforeColon(t) == Take(t, FirstOf({":"}, t) - 1)

AfterColon(t) == Drop(t, FirstOf({":"}, t))

\* a token pair made only of characters the scans accept
Scannable(t) ==
    /\ AllIn(Letters \cup {"."}, BeforeColon(t))
    /\ AllIn(Letters \cup Digits, AfterColon(t))

\* no `@` before the next `/` of the text after `//`
NoAtBeforeSlash(rem) == Count("@", Take(rem, FirstOf({"/"}, rem) - 1)) = 0

Parsed == url # <<>>

rec == url[1]

(* ---------------------------------------------------------------------- *)
(* Claims                                                                 *)
(* ---------------------------------------------------------------------- *)

\* C1: round-trip law.  For every accepted input with at most one
\* credentials block, at most one port and only scannable characters in
\* its user, password, host and port tokens, stringify(parse(input))
\* equals the input.
C1_RoundTripInput ==
    /\ ContainsDelim(input)
    /\ Count("@", input) <= 1
    /\ HasCredentials(input) => Scannable(Credentials(input))
    /\ Scannable(Segment(input))

C1_RoundTrip ==
    (pc = "stringified" /\ C1_RoundTripInput) => str = input

\* C2: mandatory delimiter.  An input without `//` is rejected by the
\* scheme stage with its delimiter-not-found error, no later stage runs
\* and no record is produced.
C2_MandatoryDelimiter ==
    ~ContainsDelim(input) =>
        /\ pc \in {"parse_scheme", "error"}
        /\ url = <<>>
        /\ pc = "error" => (err = "TakeUntil" /\ i = input)

C2_Witness == pc = "error" /\ input = NotAUrl

\* C3: the record's scheme is the text before the first `//`, without its
\* trailing colon when it has one and unchanged when it has none.
C3_Scheme ==
    Parsed =>
        rec.scheme = IF EndsWithColon(BeforeDelim(input))
                     THEN Take(BeforeDelim(input), Len(BeforeDelim(input)) - 1)
                     ELSE BeforeDelim(input)

\* C4: for a record with a username and no password, stringify emits
\* `username@` right before the origin and no `:password`.
C4_UserWithoutPassword ==
    (pc = "stringified" /\ rec.username # <<>> /\ rec.password = <<>>) =>
        str = rec.scheme \o <<":", "/", "/">> \o rec.username \o <<"@">>
                  \o rec.origin \o rec.path \o rec.query \o rec.hash

\* C5: the record's host is the authority segment up to its first `:`,
\* or the whole segment when it has no `:`.
C5_Host == Parsed => rec.host = BeforeColon(Segment(input))

C7_Markers ==
    Parsed =>
        /\ (rec.query = <<>> \/ Head(rec.query) = "?")
        /\ (rec.hash = <<>> \/ Head(rec.hash) = "#")

C7_Witness ==
    /\ Parsed
    /\ input \in BoundedInputs
    /\ rec.query # <<>>
    /\ Len(rec.hash) > 1

\* C8: when no `@` precedes the next `/` of the text after `//`, the
\* credentials stage yields empty username and password and consumes
\* nothing.
C8_CredentialsOnlyBeforeSlash ==
    (pc = "parse_host_port" /\ NoAtBeforeSlash(AfterDelim(input))) =>
        /\ username = <<>>
        /\ password = <<>>
        /\ i = AfterDelim(input)

\* C9: without a `:` the value of a key/value pair is empty: the port is
\* empty when the authority segment has no `:`, and the password is empty
\* when the credentials block has no `:`.
C9_NoSeparatorNoValue ==
    Parsed =>
        /\ Count(":", Segment(input)) = 0 => rec.port = <<>>
        /\ (HasCredentials(input) /\ Count(":", Credentials(input)) = 0)
               => rec.password = <<>>

\* C10: an input that contains `//` is never rejected: the scheme stage's
\* missing-delimiter error is the only parse error.
C10_OnlySchemeFails ==
    /\ ContainsDelim(input) => (pc # "error" /\ err = "None")
    /\ pc = "error" => (~ContainsDelim(input) /\ err = "TakeUntil" /\ i = input)

C10_Witness ==
    /\ pc = "parsed"
    /\ AfterDelim(input) = <<>>
    /\ BeforeDelim(input) # <<>>
====
